---- MODULE Spec2Model ----
(***************************************************************************)
(* A model of snew, a client library for the Reddit API.                   *)
(*                                                                         *)
(*   auth.rs    AuthenticatedClient (new, set_authenticator, get with its  *)
(*              refresh-and-retry), the three Authenticator variants,      *)
(*              parse_response                                             *)
(*   reddit.rs  Reddit::new, Reddit::me                                    *)
(*   things.rs  Subreddit::posts_sorted, PostFeed::next, or_else_transpose,*)
(*              Post::comments, CommentFeed::next, the mapping of records  *)
(*                                                                         *)
(* One caller runs one operation at a time.  An operation that reaches the *)
(* network is cut at its suspension points: pc tells which request of      *)
(* AuthenticatedClient::get is in flight, and the server's answer is the   *)
(* input of the step that resumes it.  LockSpec, apart, runs two threads   *)
(* on the locks that guard the authenticator and its token, and RaceSpec   *)
(* runs whole calls of several threads on one client.                      *)
(***************************************************************************)
EXTENDS Integers, Sequences, FiniteSets, TLC

\* Bounds of the model.
MaxTok == 1      \* the token endpoint issues access tokens 0..MaxTok
MaxItem == 2     \* comments of a listing have ids 1..MaxItem
MaxPage == 2     \* a page holds at most MaxPage records
MaxFetch == 3    \* page fetches of the feed that are explored
MaxListing == 3  \* posts in the listing of a server that pages honestly
MaxPull == 3     \* comments a caller pulls from one CommentFeed
MaxCallers == 2  \* threads that call into one client at the same time

\* Option<T>: None, or Some(x).
None == <<>>
Some(x) == <<x>>

\* reddit::Error.  The AuthenticationError carries a reason; a RequestError
\* wraps a reqwest::Error, which is of kind builder when the client could
\* not be built.
NoError == [kind |-> "", msg |-> ""]
RequestError == [kind |-> "RequestError", msg |-> ""]
BuilderError == [kind |-> "RequestError", msg |-> "builder"]
AuthenticationError(m) == [kind |-> "AuthenticationError", msg |-> m]
APIParseError == [kind |-> "APIParseError", msg |-> ""]
InvalidHeaderValue == [kind |-> "InvalidHeaderValue", msg |-> ""]
NotLoggedInError == [kind |-> "NotLoggedInError", msg |-> ""]

\* The values an operation returns: Ok(v), Err(e), and for Iterator::next
\* None, Some(Ok(v)) (tag "Ok") and Some(Err(e)) (tag "Err").
Pending == [tag |-> "-", err |-> NoError, val |-> <<>>]
Ok(v) == [tag |-> "Ok", err |-> NoError, val |-> <<v>>]
Err(e) == [tag |-> "Err", err |-> e, val |-> <<>>]
NoneItem == [tag |-> "None", err |-> NoError, val |-> <<>>]

\* the base of every resource URL
URL == "https://oauth.reddit.com"

\* The status codes told apart by the code, and one (500) for all others.
Statuses == {200, 401, 403, 500}

\* default page size of a feed
DefaultLimit == 100

Reverse(s) == [i \in 1..Len(s) |-> s[Len(s) + 1 - i]]

RECURSIVE Concat(_)
Concat(ss) == IF ss = <<>> THEN <<>> ELSE Head(ss) \o Concat(Tail(ss))

SeqsUpTo(S, n) == UNION {[1..k -> S] : k \in 0..n}

-----------------------------------------------------------------------------
\* What the token endpoint can answer.

\* Token: access tokens are numbered; 0 stands for an access token with a
\* character that is not allowed in a header value.  The tokens issued
\* differ in their lifetime as well.
AccessTokens == 0..MaxTok

TokenJson(t) ==
    [access_token |-> t, expires_in |-> 3600 + t, scope |-> "*",
     token_type |-> "bearer", refresh_token |-> None]

\* impl From<TokenJson> for Token
TokenFrom(json) ==
    [access_token |-> json.access_token, expires_in |-> json.expires_in,
     scope |-> json.scope, token_type |-> json.token_type]

Tokens == {TokenFrom(TokenJson(t)) : t \in AccessTokens}

\* The reasons an {"error": ...} body gives.
Reasons == {"invalid_grant", "unsupported_grant_type"}

\* Answers of POST /api/v1/access_token: the request fails (send_err), the
\* body cannot be read (text_err), or a status and a body that has the shape
\* of a token record, of {"error": ...}, of a token record with an error
\* field besides (both), or of none of them.
TokenResponses ==
    {[net |-> n, status |-> 0, shape |-> "other", access_token |-> 0, error |-> ""] :
        n \in {"send_err", "text_err"}}
    \cup {[net |-> "ok", status |-> s, shape |-> "other", access_token |-> 0,
           error |-> ""] : s \in Statuses}
    \cup {[net |-> "ok", status |-> s, shape |-> "error", access_token |-> 0,
           error |-> e] : s \in Statuses, e \in Reasons}
    \cup {[net |-> "ok", status |-> s, shape |-> sh, access_token |-> t,
           error |-> IF sh = "both" THEN "invalid_grant" ELSE ""] :
            s \in Statuses, sh \in {"token", "both"}, t \in AccessTokens}

-----------------------------------------------------------------------------
VARIABLES
    client,         \* "none" until Reddit::new succeeded, then "ok"
    authenticator,  \* the client's authenticator: [kind, token]
    op,             \* the operation running, or the last one run
    pc,             \* "ready", or the suspension point of the running operation
    result,         \* what new / me returned
    req,            \* the arguments of the get call in progress, if any
    gets,           \* GET requests sent by the call in progress
    logins,         \* Authenticator::login calls of the call in progress
    first,          \* status of the answer to the first GET (0: none)
    second,         \* status of the answer to the re-issued GET (0: none)
    logged,         \* outcome of the login inside get: "none", "ok", "err"
    getRes,         \* what get returned to its caller
    after,          \* PostFeed.after
    limit,          \* PostFeed.limit
    cached_posts,   \* PostFeed.cached_posts
    item,           \* what the last PostFeed::next returned
    prev_item,      \* what the PostFeed::next before it returned
    served,         \* the pages the feed has parsed, in order
    yielded,        \* the posts the feed has yielded, in order
    premise,        \* every non-empty page served declared a non-empty cursor
    fetches,        \* page fetches (get calls) of the feed
    failures,       \* page fetches of the feed that returned an error
    comment_url,    \* CommentFeed.url ("": no CommentFeed was made yet)
    cached_comments,\* CommentFeed.cached_comments
    comment_item,   \* what the last CommentFeed::next returned
    yielded_comments, \* the comments a caller that keeps them has pulled
    locks,          \* the guards held on the two RwLocks
    rd,             \* the thread reading the token: "idle", "copying", "done"
    wr,             \* the thread writing: "idle", "login", "set_authenticator"
    seen,           \* the reading thread's copy of the token
    old_tok,        \* the token stored before the last write began
    incoming,       \* the authenticator the last write installs
    record,         \* a raw record received from the server
    mapped,         \* the Post or Comment made of it, once mapped
    total,          \* the number of posts in the server's listing
    thread,         \* the comments the server holds for a post
    calls           \* the call each thread that shares the client is in

vars ==
    <<client, authenticator, op, pc, result, req, gets, logins, first, second,
      logged, getRes, after, limit, cached_posts, item, prev_item, served, yielded,
      premise, fetches, failures, comment_url, cached_comments, comment_item,
      yielded_comments, locks, rd, wr, seen, old_tok, incoming, record, mapped,
      total, thread, calls>>

\* The threads that share the client, and the state of a thread that is
\* in no call: the result of its last call stays with it.
Callers == 1..MaxCallers
NoCalls ==
    [t \in Callers |->
        [op |-> "none", pc |-> "done", res |-> Pending, arg |-> None,
         since |-> {}]]

callVars == <<req, gets, logins, first, second, logged, getRes>>
postVars ==
    <<after, limit, cached_posts, item, prev_item, served, yielded, premise, fetches, failures>>
commentVars == <<comment_url, cached_comments, comment_item>>
feedVars == <<postVars, commentVars>>
lockVars == <<locks, rd, wr, seen, old_tok, incoming>>
recordVars == <<record, mapped>>

-----------------------------------------------------------------------------
\* What the resource endpoint can answer.

\* Raw records of a listing: RawKind<RawPostData>.  The feed never looks
\* into a post, so the server's posts are numbered in the order it serves
\* them: the i-th post parsed by the feed has id i.
RawPost(i) ==
    [kind |-> "t3",
     data |-> [id |-> i, subreddit |-> "rust", is_self |-> FALSE, selftext |-> ""]]

\* Raw records of a comment listing: RawKind<RawCommentData>
RawComments ==
    {[kind |-> "t1", data |-> [id |-> i, body |-> "text"]] : i \in 1..MaxItem}

\* The cursors a page can declare.
Cursors == {"", "c1", "c2"}

\* Bodies of a 200 answer to a GET: unreadable, not the JSON the caller
\* expects (garbage), a listing of posts, the pair of listings the comments
\* of a post come in (children: the records of the second), or the account
\* record.
Body(shape, next_cursor, children) ==
    [shape |-> shape, after |-> next_cursor, children |-> children]

Garbage == Body("garbage", None, <<>>)

\* The pages that can be served next: up to MaxPage further posts, with
\* any cursor declared or none.
Listings ==
    LET n == Len(Concat(served))
    IN  {Body("listing", a, [i \in 1..k |-> RawPost(n + i)]) :
            a \in {None} \cup {Some(x) : x \in Cursors},
            k \in 0..MaxPage}

\* The first of the two listings of a comments body: the listing that holds
\* the post, an empty listing, or an object that is no listing at all.
Envelopes ==
    {[kind |-> "Listing", children |-> <<RawPost(0)>>],
     [kind |-> "Listing", children |-> <<>>],
     [kind |-> "more", children |-> <<>>]}

\* A comments body: the pair (first, listing of children).
CommentsBody(envelope, children) ==
    [shape |-> "comments", after |-> None, children |-> children,
     first |-> envelope]

CommentListings ==
    {CommentsBody(e, c) : e \in Envelopes, c \in SeqsUpTo(RawComments, MaxPage)}

Bodies(url) ==
    {Body("unreadable", None, <<>>), Garbage}
    \cup (IF url = "posts" THEN Listings
          ELSE IF url = "me" THEN {Body("me", None, <<>>)}
          ELSE CommentListings)

\* Answers to a GET of url.
GetResponses(url) ==
    {[net |-> "send_err", status |-> 0, body |-> Garbage]}
    \cup {[net |-> "ok", status |-> s, body |-> Garbage] : s \in Statuses \ {200}}
    \cup {[net |-> "ok", status |-> 200, body |-> b] : b \in Bodies(url)}

-----------------------------------------------------------------------------
\* auth.rs: the authenticators.

AuthKinds == {"script", "user", "application"}

\* The authenticators a caller can build: ScriptAuthenticator::new,
\* ApplicationAuthenticator::new and UserAuthenticator::new hold no token,
\* UserAuthenticator::new_complete holds the token it is given.
Authenticators ==
    {[kind |-> k, token |-> None] : k \in AuthKinds}
    \cup {[kind |-> "user", token |-> Some(t)] : t \in Tokens}

\* parse_response with the error shape tried before the token shape.
parse_response_error_first(response) ==
    IF response.net = "text_err" THEN Err(RequestError)
    ELSE IF response.shape \in {"error", "both"}
      THEN Err(AuthenticationError("credentials: " \o response.error))
    ELSE IF response.shape = "token" THEN Ok(TokenJson(response.access_token))
    ELSE IF response.status = 401 THEN Err(AuthenticationError("unauthorized"))
    ELSE Err(AuthenticationError("unexpected: " \o ToString(response.status)))

\* parse_response: the body is read; it is tried as a token record (fields
\* it does not know are ignored), then as {"error": ...}, whose reason the
\* error carries; then the status is looked at, and the error carries it.
parse_response(response) ==
    IF response.net = "text_err" THEN Err(RequestError)
    ELSE IF response.shape \in {"token", "both"}
      THEN Ok(TokenJson(response.access_token))
    ELSE IF response.shape = "error"
      THEN Err(AuthenticationError("credentials: " \o response.error))
    ELSE IF response.status = 401 THEN Err(AuthenticationError("unauthorized"))
    ELSE Err(AuthenticationError("unexpected: " \o ToString(response.status)))

\* Authenticator::login of each variant, given the token endpoint's answer:
\* what login returns and the token stored afterwards.  The right-hand side
\* of the assignment to the token is evaluated, and may return early, before
\* the token is written.
UserLogin(token, response) ==
    IF response.net = "send_err" THEN [res |-> Err(RequestError), token |-> token]
    ELSE LET parsed == parse_response(response)
         IN  IF parsed.tag = "Err" THEN [res |-> parsed, token |-> token]
             ELSE [res |-> Ok("unit"), token |-> Some(TokenFrom(parsed.val[1]))]

\* ScriptLogin that takes the stored token out before the answer is parsed.
ScriptLogin_taking(token, response) ==
    IF response.net = "send_err" THEN [res |-> Err(RequestError), token |-> token]
    ELSE LET parsed == parse_response(response)
         IN  IF parsed.tag = "Err" THEN [res |-> parsed, token |-> None]
             ELSE [res |-> Ok("unit"), token |-> Some(TokenFrom(parsed.val[1]))]

ScriptLogin(token, response) ==
    IF response.net = "send_err" THEN [res |-> Err(RequestError), token |-> token]
    ELSE LET parsed == parse_response(response)
         IN  IF parsed.tag = "Err" THEN [res |-> parsed, token |-> token]
             ELSE [res |-> Ok("unit"), token |-> Some(TokenFrom(parsed.val[1]))]

ApplicationLogin(token, response) ==
    IF response.net = "send_err" THEN [res |-> Err(RequestError), token |-> token]
    ELSE LET parsed == parse_response(response)
         IN  IF parsed.tag = "Err" THEN [res |-> parsed, token |-> token]
             ELSE [res |-> Ok("unit"), token |-> Some(TokenFrom(parsed.val[1]))]

\* dyn Authenticator: login, token and is_logged_in of the variant held.
login(a, response) ==
    IF a.kind = "user" THEN UserLogin(a.token, response)
    ELSE IF a.kind = "script" THEN ScriptLogin(a.token, response)
    ELSE ApplicationLogin(a.token, response)

token(a) == a.token

is_logged_in(a) ==
    IF a.kind = "application" THEN FALSE ELSE a.token # None

-----------------------------------------------------------------------------
\* auth.rs: AuthenticatedClient::get.

\* make_request, before it sends: the bearer header is built from the token.
header_ok(tok) == tok.access_token # 0

\* check_auth with the refresh taken on every status it knows.
check_auth_always_refresh(response) ==
    IF response.status = 200 \/ response.status = 403 \/ response.status = 401
      THEN Ok(FALSE)
    ELSE Err(AuthenticationError("unexpected_code"))

\* check_auth with every status but 200 taken as a stale token.
check_auth_refresh_on_any(response) ==
    IF response.status = 200 THEN Ok(TRUE) ELSE Ok(FALSE)

\* check_auth with 403 taken as an error, and only 401 as a stale token.
check_auth_forbidden_fails(response) ==
    IF response.status = 200 THEN Ok(TRUE)
    ELSE IF response.status = 401 THEN Ok(FALSE)
    ELSE Err(AuthenticationError("unexpected_code"))

\* check_auth: Ok(true) for 200, Ok(false) for 401 and 403, an error otherwise.
check_auth(response) ==
    IF response.status = 200 THEN Ok(TRUE)
    ELSE IF response.status = 403 \/ response.status = 401 THEN Ok(FALSE)
    ELSE Err(AuthenticationError("unexpected_code"))

\* second_attempt with the comparison of the status inverted.
second_attempt_inverted(response) ==
    IF response.net = "send_err" THEN Err(RequestError)
    ELSE IF response.status # 200 THEN Ok(response.body)
    ELSE Err(AuthenticationError("still_unauthenticated"))

\* second_attempt that hands the answer to check_auth, as the first attempt does.
second_attempt_checked(response) ==
    IF response.net = "send_err" THEN Err(RequestError)
    ELSE IF check_auth(response).tag = "Err" THEN check_auth(response)
    ELSE IF check_auth(response).val[1] THEN Ok(response.body)
    ELSE Err(NotLoggedInError)

\* The answer to the re-issued GET: only 200 is a success.
second_attempt(response) ==
    IF response.net = "send_err" THEN Err(RequestError)
    ELSE IF response.status = 200 THEN Ok(response.body)
    ELSE Err(AuthenticationError("still_unauthenticated"))

\* No call of get is in progress: its arguments, its locals and the counts
\* of the requests it sent are those of no call.
NoCall ==
    /\ req' = None
    /\ gets' = 0
    /\ logins' = 0
    /\ first' = 0
    /\ second' = 0
    /\ logged' = "none"
    /\ getRes' = Pending

\* get up to its first suspension point: with a token the first GET is sent,
\* unless the token makes no header value; without one login is called.
get(url, queries) ==
    /\ req' = Some([url |-> url, queries |-> queries])
    /\ first' = 0
    /\ second' = 0
    /\ logged' = "none"
    /\ IF token(authenticator) # None
         THEN /\ logins' = 0
              /\ IF header_ok(token(authenticator)[1])
                   THEN gets' = 1 /\ pc' = "first" /\ getRes' = Pending
                   ELSE gets' = 0 /\ pc' = "ret" /\ getRes' = Err(InvalidHeaderValue)
         ELSE /\ logins' = 1
              /\ gets' = 0
              /\ pc' = "login"
              /\ getRes' = Pending

\* The first GET is answered.
FirstReturn(response) ==
    /\ pc = "first"
    /\ IF response.net = "send_err"
         THEN /\ getRes' = Err(RequestError)
              /\ pc' = "ret"
              /\ UNCHANGED <<first, logins>>
         ELSE /\ first' = response.status
              /\ LET checked == check_auth(response)
                 IN  IF checked.tag = "Err"
                       THEN getRes' = checked /\ pc' = "ret" /\ UNCHANGED logins
                     ELSE IF checked.val[1]
                       THEN getRes' = Ok(response.body) /\ pc' = "ret" /\ UNCHANGED logins
                     ELSE getRes' = Pending /\ pc' = "login" /\ logins' = logins + 1
    /\ UNCHANGED <<client, authenticator, op, result, req, gets, second, logged>>
    /\ UNCHANGED feedVars
    /\ UNCHANGED lockVars
    /\ UNCHANGED <<recordVars, total, thread, yielded_comments, calls>>

\* LoginReturn with the result of login dropped.
LoginReturn_unchecked(response) ==
    /\ pc = "login"
    /\ LET l == login(authenticator, response)
           a == [authenticator EXCEPT !.token = l.token]
       IN  /\ authenticator' = a
           /\ logged' = (IF l.res.tag = "Err" THEN "err" ELSE "ok")
           /\ IF token(a) = None
                THEN /\ getRes' = Err(AuthenticationError("token_not_set"))
                     /\ pc' = "ret"
                     /\ UNCHANGED gets
              ELSE IF header_ok(token(a)[1])
                THEN getRes' = Pending /\ pc' = "second" /\ gets' = gets + 1
              ELSE getRes' = Err(InvalidHeaderValue) /\ pc' = "ret" /\ UNCHANGED gets
    /\ UNCHANGED <<client, op, result, req, logins, first, second>>
    /\ UNCHANGED feedVars
    /\ UNCHANGED lockVars
    /\ UNCHANGED <<recordVars, total, thread, yielded_comments, calls>>

\* The login called by get returns; on success the token is read again and
\* the GET is re-issued.
LoginReturn(response) ==
    /\ pc = "login"
    /\ LET l == login(authenticator, response)
           a == [authenticator EXCEPT !.token = l.token]
       IN  /\ authenticator' = a
           /\ IF l.res.tag = "Err"
                THEN logged' = "err" /\ getRes' = l.res /\ pc' = "ret" /\ UNCHANGED gets
              ELSE IF token(a) = None
                THEN /\ logged' = "ok"
                     /\ getRes' = Err(AuthenticationError("token_not_set"))
                     /\ pc' = "ret"
                     /\ UNCHANGED gets
              ELSE IF header_ok(token(a)[1])
                THEN logged' = "ok" /\ getRes' = Pending /\ pc' = "second" /\ gets' = gets + 1
              ELSE logged' = "ok" /\ getRes' = Err(InvalidHeaderValue) /\ pc' = "ret"
                   /\ UNCHANGED gets
    /\ UNCHANGED <<client, op, result, req, logins, first, second>>
    /\ UNCHANGED feedVars
    /\ UNCHANGED lockVars
    /\ UNCHANGED <<recordVars, total, thread, yielded_comments, calls>>

\* SecondReturn that refreshes again when the re-issued GET is refused.
SecondReturnRetrying(response) ==
    /\ pc = "second"
    /\ second' = (IF response.net = "send_err" THEN 0 ELSE response.status)
    /\ IF response.net = "ok" /\ response.status \in {401, 403}
         THEN getRes' = Pending /\ pc' = "login" /\ logins' = logins + 1
         ELSE getRes' = second_attempt(response) /\ pc' = "ret" /\ UNCHANGED logins
    /\ UNCHANGED <<client, authenticator, op, result, req, gets, first, logged>>
    /\ UNCHANGED feedVars
    /\ UNCHANGED lockVars
    /\ UNCHANGED <<recordVars, total, thread, yielded_comments, calls>>

\* The re-issued GET is answered.
SecondReturn(response) ==
    /\ pc = "second"
    /\ second' = (IF response.net = "send_err" THEN 0 ELSE response.status)
    /\ getRes' = second_attempt(response)
    /\ pc' = "ret"
    /\ UNCHANGED <<client, authenticator, op, result, req, gets, logins, first, logged>>
    /\ UNCHANGED feedVars
    /\ UNCHANGED lockVars
    /\ UNCHANGED <<recordVars, total, thread, yielded_comments, calls>>

-----------------------------------------------------------------------------
\* auth.rs, reddit.rs: construction, set_authenticator, me.

\* AuthenticatedClient::new with the result of login dropped.
AuthenticatedClient_new_unchecked(a, user_agent_ok, response) ==
    IF ~user_agent_ok
      THEN [res |-> Err(BuilderError), logins |-> 0, authenticator |-> None]
    ELSE [res |-> Ok("client"), logins |-> 1,
          authenticator |-> Some([a EXCEPT !.token = login(a, response).token])]

\* AuthenticatedClient::new: make_client, then one login whose error is
\* returned; the client is built only after both succeeded.
AuthenticatedClient_new(a, user_agent_ok, response) ==
    IF ~user_agent_ok
      THEN [res |-> Err(BuilderError), logins |-> 0, authenticator |-> None]
    ELSE LET l == login(a, response)
         IN  IF l.res.tag = "Err"
               THEN [res |-> l.res, logins |-> 1, authenticator |-> None]
             ELSE [res |-> Ok("client"), logins |-> 1,
                   authenticator |-> Some([a EXCEPT !.token = l.token])]

\* Reddit::new
New(a, user_agent_ok, response) ==
    /\ pc = "ready"
    /\ client = "none"
    /\ op' = "new"
    /\ LET made == AuthenticatedClient_new(a, user_agent_ok, response)
       IN  /\ result' = made.res
           /\ logins' = made.logins
           /\ IF made.res.tag = "Ok"
                THEN client' = "ok" /\ authenticator' = made.authenticator[1]
                ELSE UNCHANGED <<client, authenticator>>
    /\ req' = None
    /\ gets' = 0
    /\ first' = 0
    /\ second' = 0
    /\ logged' = "none"
    /\ getRes' = Pending
    /\ UNCHANGED pc
    /\ UNCHANGED feedVars
    /\ UNCHANGED lockVars
    /\ UNCHANGED <<recordVars, total, thread, yielded_comments, calls>>

\* Reddit::set_authenticator: the authenticator is replaced as it is given.
SetAuthenticator(a) ==
    /\ pc = "ready"
    /\ client = "ok"
    /\ op' = "set_authenticator"
    /\ authenticator' = a
    /\ result' = Ok("unit")
    /\ NoCall
    /\ UNCHANGED <<client, pc>>
    /\ UNCHANGED feedVars
    /\ UNCHANGED lockVars
    /\ UNCHANGED <<recordVars, total, thread, yielded_comments, calls>>

\* me without the is_logged_in gate.
MeUngated ==
    /\ pc = "ready"
    /\ client = "ok"
    /\ op' = "me"
    /\ result' = Pending
    /\ get("me", None)
    /\ UNCHANGED <<client, authenticator>>
    /\ UNCHANGED feedVars
    /\ UNCHANGED lockVars
    /\ UNCHANGED <<recordVars, total, thread, yielded_comments, calls>>

\* Reddit::me up to the first suspension point of its get.
Me ==
    /\ pc = "ready"
    /\ client = "ok"
    /\ op' = "me"
    /\ IF is_logged_in(authenticator)
         THEN result' = Pending /\ get("me", None)
         ELSE result' = Err(NotLoggedInError) /\ NoCall /\ UNCHANGED pc
    /\ UNCHANGED <<client, authenticator>>
    /\ UNCHANGED feedVars
    /\ UNCHANGED lockVars
    /\ UNCHANGED <<recordVars, total, thread, yielded_comments, calls>>

\* What me makes of the value get returned.
me_result(res) ==
    IF res.tag = "Err" THEN res
    ELSE IF res.val[1].shape = "unreadable" THEN Err(RequestError)
    ELSE IF res.val[1].shape # "me" THEN Err(APIParseError)
    ELSE Ok("Me")

\* get returns to me.
MeReturn ==
    /\ pc = "ret"
    /\ op = "me"
    /\ result' = me_result(getRes)
    /\ pc' = "ready"
    /\ NoCall
    /\ UNCHANGED <<client, authenticator, op>>
    /\ UNCHANGED feedVars
    /\ UNCHANGED lockVars
    /\ UNCHANGED <<recordVars, total, thread, yielded_comments, calls>>

-----------------------------------------------------------------------------
\* things.rs: PostFeed.

\* PostFrom with the kind set to the tag of posts.
PostFrom_retagging(r) ==
    [kind |-> "t3", id |-> r.data.id, subreddit |-> r.data.subreddit,
     is_self |-> r.data.is_self,
     selftext |-> IF r.data.is_self THEN Some(r.data.selftext) ELSE None]

\* impl From<(RawKind<RawPostData>, Arc<AuthenticatedClient>)> for Post: the
\* selftext is kept for a self post only; every other field (of which kind,
\* id, subreddit and is_self are modelled) is moved as it is.
PostFrom(r) ==
    [kind |-> r.kind, id |-> r.data.id, subreddit |-> r.data.subreddit,
     is_self |-> r.data.is_self,
     selftext |-> IF r.data.is_self THEN Some(r.data.selftext) ELSE None]

\* Vec::pop
pop(vec) ==
    IF vec = <<>> THEN [vec |-> vec, item |-> None]
    ELSE [vec |-> SubSeq(vec, 1, Len(vec) - 1), item |-> Some(vec[Len(vec)])]

\* Option::map(Ok) of a popped post
map_ok(opt) == IF opt = None THEN NoneItem ELSE Ok(opt[1])

\* transpose with the error dropped, as Result::ok followed by flatten.
transpose_ok_flatten(r) ==
    IF r.tag = "Err" THEN NoneItem
    ELSE IF r.val[1] = None THEN NoneItem
    ELSE Ok(r.val[1][1])

\* Result<Option<T>>::transpose
transpose(r) ==
    IF r.tag = "Err" THEN r
    ELSE IF r.val[1] = None THEN NoneItem
    ELSE Ok(r.val[1][1])

\* Transpose::or_else_transpose: f is what the closure returns when run.
or_else_transpose(self, f) ==
    IF self.tag = "None" THEN transpose(f) ELSE self

\* extend_rev without the rev().
extend_in_order(cached, children) ==
    cached \o [i \in 1..Len(children) |-> PostFrom(children[i])]

\* cached_posts.extend(children.into_iter().rev().map(From::from))
extend_rev(cached, children) ==
    cached \o [i \in 1..Len(children) |-> PostFrom(Reverse(children)[i])]

\* fetch_page that starts over from the first page after an error.
fetch_page_rewinding(res, feed_after, cached) ==
    IF res.tag = "Err"
      THEN [res |-> res, after |-> "", cached |-> cached]
    ELSE IF res.val[1].shape = "unreadable"
      THEN [res |-> Err(RequestError), after |-> "", cached |-> cached]
    ELSE IF res.val[1].shape # "listing"
      THEN [res |-> Err(APIParseError), after |-> "", cached |-> cached]
    ELSE LET listing == res.val[1]
             popped == pop(extend_rev(cached, listing.children))
         IN  [res |-> Ok(popped.item),
              after |-> IF listing.after # None THEN listing.after[1] ELSE feed_after,
              cached |-> popped.vec]

\* fetch_page that takes a page declaring no cursor as the start of the listing.
fetch_page_forgetting(res, feed_after, cached) ==
    IF res.tag = "Err"
      THEN [res |-> res, after |-> feed_after, cached |-> cached]
    ELSE IF res.val[1].shape = "unreadable"
      THEN [res |-> Err(RequestError), after |-> feed_after, cached |-> cached]
    ELSE IF res.val[1].shape # "listing"
      THEN [res |-> Err(APIParseError), after |-> feed_after, cached |-> cached]
    ELSE LET listing == res.val[1]
             popped == pop(extend_rev(cached, listing.children))
         IN  [res |-> Ok(popped.item),
              after |-> IF listing.after # None THEN listing.after[1] ELSE "",
              cached |-> popped.vec]

\* The closure of PostFeed::next after get returned res: the value it returns
\* and the feed's cursor and buffer afterwards.
fetch_page(res, feed_after, cached) ==
    IF res.tag = "Err"
      THEN [res |-> res, after |-> feed_after, cached |-> cached]
    ELSE IF res.val[1].shape = "unreadable"
      THEN [res |-> Err(RequestError), after |-> feed_after, cached |-> cached]
    ELSE IF res.val[1].shape # "listing"
      THEN [res |-> Err(APIParseError), after |-> feed_after, cached |-> cached]
    ELSE LET listing == res.val[1]
             popped == pop(extend_rev(cached, listing.children))
         IN  [res |-> Ok(popped.item),
              after |-> IF listing.after # None THEN listing.after[1] ELSE feed_after,
              cached |-> popped.vec]

\* Subreddit::posts_sorted (hot, new, top, ...): a fresh feed.
PostsSorted ==
    /\ pc = "ready"
    /\ client = "ok"
    /\ op' = "posts_sorted"
    /\ after' = ""
    /\ limit' = DefaultLimit
    /\ cached_posts' = <<>>
    /\ item' = Pending
    /\ prev_item' = Pending
    /\ served' = <<>>
    /\ yielded' = <<>>
    /\ premise' = TRUE
    /\ fetches' = 0
    /\ failures' = 0
    /\ result' = Pending
    /\ NoCall
    /\ UNCHANGED <<client, authenticator, pc>>
    /\ UNCHANGED commentVars
    /\ UNCHANGED lockVars
    /\ UNCHANGED <<recordVars, total, thread, yielded_comments, calls>>

\* The page sizes a caller asks for.
Limits == {DefaultLimit, 1}

\* feed.limit = n: the field is public, and the caller assigns it.
SetLimit(n) ==
    /\ pc = "ready"
    /\ client = "ok"
    /\ n # limit
    /\ op' = "set_limit"
    /\ limit' = n
    /\ result' = Pending
    /\ NoCall
    /\ UNCHANGED <<client, authenticator, pc>>
    /\ UNCHANGED <<after, cached_posts, item, prev_item, served, yielded, premise,
                   fetches, failures>>
    /\ UNCHANGED commentVars
    /\ UNCHANGED lockVars
    /\ UNCHANGED <<recordVars, total, thread, yielded_comments, calls>>

\* PostFeed::next with the closure run whether or not a post was popped, as
\* with Option::or in place of or_else.
PostNextEager ==
    /\ pc = "ready"
    /\ client = "ok"
    /\ fetches < MaxFetch
    /\ op' = "post_next"
    /\ prev_item' = item
    /\ result' = Pending
    /\ get("posts", Some([limit |-> limit, after |-> after]))
    /\ fetches' = fetches + 1
    /\ item' = Pending
    /\ UNCHANGED <<cached_posts, yielded>>
    /\ UNCHANGED <<client, authenticator, after, limit, served, premise, failures>>
    /\ UNCHANGED commentVars
    /\ UNCHANGED lockVars
    /\ UNCHANGED <<recordVars, total, thread, yielded_comments, calls>>

\* PostNext on a buffer that the feeds of one client share.
PostNext_sharing ==
    /\ pc = "ready"
    /\ client = "ok"
    /\ cached_posts # <<>> \/ fetches < MaxFetch
    /\ op' = "post_next"
    /\ prev_item' = item
    /\ result' = Pending
    /\ LET popped == pop(cached_posts)
           self == map_ok(popped.item)
       IN  IF self.tag = "None"
             THEN /\ get("posts", Some([limit |-> limit, after |-> after]))
                  /\ fetches' = fetches + 1
                  /\ item' = Pending
                  /\ UNCHANGED <<cached_posts, yielded>>
             ELSE /\ item' = or_else_transpose(self, Pending)
                  /\ cached_posts' = popped.vec
                  /\ yielded' = Append(yielded, self.val[1])
                  /\ NoCall
                  /\ UNCHANGED <<pc, fetches>>
    /\ UNCHANGED <<client, authenticator, after, limit, served, premise, failures>>
    /\ cached_comments' = <<>>
    /\ UNCHANGED <<comment_url, comment_item>>
    /\ UNCHANGED lockVars
    /\ UNCHANGED <<recordVars, total, thread, yielded_comments, calls>>

\* PostFeed::next up to the first suspension point: a buffered post is popped
\* and returned; with an empty buffer the closure runs and calls get.
PostNext ==
    /\ pc = "ready"
    /\ client = "ok"
    /\ cached_posts # <<>> \/ fetches < MaxFetch
    /\ op' = "post_next"
    /\ prev_item' = item
    /\ result' = Pending
    /\ LET popped == pop(cached_posts)
           self == map_ok(popped.item)
       IN  IF self.tag = "None"
             THEN /\ get("posts", Some([limit |-> limit, after |-> after]))
                  /\ fetches' = fetches + 1
                  /\ item' = Pending
                  /\ UNCHANGED <<cached_posts, yielded>>
             ELSE /\ item' = or_else_transpose(self, Pending)
                  /\ cached_posts' = popped.vec
                  /\ yielded' = Append(yielded, self.val[1])
                  /\ NoCall
                  /\ UNCHANGED <<pc, fetches>>
    /\ UNCHANGED <<client, authenticator, after, limit, served, premise, failures>>
    /\ UNCHANGED commentVars
    /\ UNCHANGED lockVars
    /\ UNCHANGED <<recordVars, total, thread, yielded_comments, calls>>

\* get returns to the closure of PostFeed::next.
PostNextReturn ==
    /\ pc = "ret"
    /\ op = "post_next"
    /\ LET f == fetch_page(getRes, after, cached_posts)
           it == or_else_transpose(NoneItem, f.res)
           parsed == f.res.tag = "Ok"
           listing == getRes.val[1]
       IN  /\ after' = f.after
           /\ cached_posts' = f.cached
           /\ item' = it
           /\ yielded' = (IF it.tag = "Ok" THEN Append(yielded, it.val[1]) ELSE yielded)
           /\ served' = (IF parsed
                           THEN Append(served, [i \in 1..Len(listing.children) |->
                                                   PostFrom(listing.children[i])])
                           ELSE served)
           /\ failures' = (IF parsed THEN failures ELSE failures + 1)
           /\ premise' = (IF parsed /\ listing.children # <<>>
                            THEN premise /\ listing.after # None /\ listing.after # Some("")
                            ELSE premise)
    /\ pc' = "ready"
    /\ NoCall
    /\ UNCHANGED <<client, authenticator, op, result, limit, prev_item, fetches>>
    /\ UNCHANGED commentVars
    /\ UNCHANGED lockVars
    /\ UNCHANGED <<recordVars, total, thread, yielded_comments, calls>>

-----------------------------------------------------------------------------
\* things.rs: CommentFeed.

\* impl From<RawKind<RawCommentData>> for Comment
CommentFrom(raw) == [id |-> raw.data.id, body |-> raw.data.body]

\* extend_rev_comments without the rev().
extend_comments_in_order(cached, children) ==
    cached \o [i \in 1..Len(children) |-> CommentFrom(children[i])]

\* cached_comments.extend(children.into_iter().rev().map(From::from))
extend_rev_comments(cached, children) ==
    cached \o [i \in 1..Len(children) |-> CommentFrom(Reverse(children)[i])]

\* fetch_comments with the records of the first listing mapped as well.
fetch_comments_with_post(res, cached) ==
    IF res.tag = "Err" THEN [res |-> res, cached |-> cached]
    ELSE IF res.val[1].shape = "unreadable"
      THEN [res |-> Err(RequestError), cached |-> cached]
    ELSE IF res.val[1].shape # "comments"
      THEN [res |-> Err(APIParseError), cached |-> cached]
    ELSE LET head == res.val[1].first.children
             posts == [i \in 1..Len(head) |->
                          [kind |-> "t1",
                           data |-> [id |-> head[i].data.id,
                                     body |-> head[i].data.selftext]]]
             popped == pop(extend_rev_comments(cached,
                                               posts \o res.val[1].children))
         IN  [res |-> Ok(popped.item), cached |-> popped.vec]

\* The closure of CommentFeed::next after get returned res: the value it
\* returns and the feed's buffer afterwards.  The body parses as the pair
\* (Empty, RawListing): Empty takes any object and keeps nothing of it.
fetch_comments(res, cached) ==
    IF res.tag = "Err" THEN [res |-> res, cached |-> cached]
    ELSE IF res.val[1].shape = "unreadable"
      THEN [res |-> Err(RequestError), cached |-> cached]
    ELSE IF res.val[1].shape # "comments"
      THEN [res |-> Err(APIParseError), cached |-> cached]
    ELSE LET popped == pop(extend_rev_comments(cached, res.val[1].children))
         IN  [res |-> Ok(popped.item), cached |-> popped.vec]

\* The posts a caller holds and asks the comments of.
Subjects ==
    {PostFrom([kind |-> "t3",
               data |-> [id |-> i, subreddit |-> sr, is_self |-> b,
                         selftext |-> IF b THEN "text" ELSE ""]]) :
        <<i, sr>> \in {<<"abc", "rust">>, <<"abc", "news">>, <<"xyz", "rust">>},
        b \in BOOLEAN}

\* The post a caller that holds one post asks the comments of.
Subject ==
    PostFrom([kind |-> "t3",
              data |-> [id |-> "abc", subreddit |-> "rust", is_self |-> FALSE,
                        selftext |-> ""]])

\* comments_url with the subreddit left out.
comments_url_by_id(post) == URL \o "/comments/" \o post.id

\* format!("{}/r/{}/comments/{}", URL, self.subreddit, self.id)
comments_url(post) == URL \o "/r/" \o post.subreddit \o "/comments/" \o post.id

\* Post::comments: a fresh feed of the comments of a post.
Comments(post) ==
    /\ pc = "ready"
    /\ client = "ok"
    /\ op' = "comments"
    /\ comment_url' = comments_url(post)
    /\ cached_comments' = <<>>
    /\ comment_item' = Pending
    /\ result' = Pending
    /\ NoCall
    /\ UNCHANGED <<client, authenticator, pc>>
    /\ UNCHANGED postVars
    /\ UNCHANGED lockVars
    /\ UNCHANGED <<recordVars, total, thread, calls>>

\* CommentFeed::next up to the first suspension point.
CommentNext ==
    /\ pc = "ready"
    /\ client = "ok"
    /\ comment_url # ""
    /\ op' = "comment_next"
    /\ result' = Pending
    /\ LET popped == pop(cached_comments)
           self == map_ok(popped.item)
       IN  IF self.tag = "None"
             THEN /\ get(comment_url, None)
                  /\ comment_item' = Pending
                  /\ UNCHANGED cached_comments
             ELSE /\ comment_item' = or_else_transpose(self, Pending)
                  /\ cached_comments' = popped.vec
                  /\ NoCall
                  /\ UNCHANGED pc
    /\ UNCHANGED comment_url
    /\ UNCHANGED <<client, authenticator>>
    /\ UNCHANGED postVars
    /\ UNCHANGED lockVars
    /\ UNCHANGED <<recordVars, total, thread, calls>>

\* get returns to the closure of CommentFeed::next.
CommentNextReturn ==
    /\ pc = "ret"
    /\ op = "comment_next"
    /\ LET f == fetch_comments(getRes, cached_comments)
       IN  /\ cached_comments' = f.cached
           /\ comment_item' = or_else_transpose(NoneItem, f.res)
    /\ UNCHANGED comment_url
    /\ pc' = "ready"
    /\ NoCall
    /\ UNCHANGED <<client, authenticator, op, result>>
    /\ UNCHANGED postVars
    /\ UNCHANGED lockVars
    /\ UNCHANGED <<recordVars, total, thread, calls>>

\* get returned a body that parses as a listing of posts to next.
PageParsed ==
    /\ pc = "ret"
    /\ op = "post_next"
    /\ getRes.tag = "Ok"
    /\ getRes.val[1].shape = "listing"

-----------------------------------------------------------------------------
\* auth.rs: the RwLock around the client's authenticator and the RwLock
\* around the authenticator's token, with one thread that reads the token
\* (as get does) while another logs in or calls set_authenticator.  A value
\* is stored, and cloned, in two parts: the access token, then the rest.

\* No guard is held.
Unlocked == [auth_w |-> FALSE, auth_r |-> 0, tok_w |-> FALSE, tok_r |-> 0]

\* can_read that does not wait for the writer.
can_read_racing(writer) == TRUE

\* RwLock::read returns once no write guard is held.
can_read(writer) == ~writer

\* RwLock::write returns once no guard is held.
can_write(writer, readers) == ~writer /\ readers = 0

\* A Token none of whose fields was written.
Blank == [access_token |-> 0, expires_in |-> 0, scope |-> "", token_type |-> ""]

\* The Option<Token> in memory when the first part of new is stored over old.
half_stored(old, new) ==
    IF new = None THEN None
    ELSE IF old = None THEN Some([Blank EXCEPT !.access_token = new[1].access_token])
    ELSE Some([old[1] EXCEPT !.access_token = new[1].access_token])

\* Option<Token>::clone, first part, of the value in memory.
half_cloned(mem) ==
    IF mem = None THEN None
    ELSE Some([Blank EXCEPT !.access_token = mem[1].access_token])

\* Option<Token>::clone, the rest.
cloned(part, mem) ==
    IF part = None THEN None
    ELSE IF mem = None THEN part
    ELSE Some([mem[1] EXCEPT !.access_token = part[1].access_token])

\* The lock model at rest.
LockIdle ==
    /\ locks = Unlocked
    /\ rd = "idle"
    /\ wr = "idle"
    /\ seen = None
    /\ old_tok = None
    /\ incoming = [kind |-> "application", token |-> None]

mainVars ==
    <<client, op, pc, result, req, gets, logins, first, second, logged, getRes>>

\* self.authenticator.read().unwrap().token(): both read guards are taken
\* and the clone begins.
ReadBegin ==
    /\ rd \in {"idle", "done"}
    /\ can_read(locks.auth_w)
    /\ can_read(locks.tok_w)
    /\ locks' = [locks EXCEPT !.auth_r = @ + 1, !.tok_r = @ + 1]
    /\ seen' = half_cloned(token(authenticator))
    /\ rd' = "copying"
    /\ UNCHANGED <<authenticator, wr, old_tok, incoming>>
    /\ UNCHANGED <<mainVars, feedVars>>
    /\ UNCHANGED <<recordVars, total, thread, yielded_comments, calls>>

\* The clone is complete and the guards are dropped.
ReadEnd ==
    /\ rd = "copying"
    /\ seen' = cloned(seen, token(authenticator))
    /\ locks' = [locks EXCEPT !.auth_r = @ - 1, !.tok_r = @ - 1]
    /\ rd' = "done"
    /\ UNCHANGED <<authenticator, wr, old_tok, incoming>>
    /\ UNCHANGED <<mainVars, feedVars>>
    /\ UNCHANGED <<recordVars, total, thread, yielded_comments, calls>>

\* self.authenticator.read().unwrap().login(..): under a read guard on the
\* authenticator the token endpoint answers; a failed login writes nothing,
\* a successful one takes the write guard on the token and begins to store.
LoginBegin(response) ==
    /\ wr = "idle"
    /\ can_read(locks.auth_w)
    /\ LET l == login(authenticator, response)
       IN  IF l.res.tag = "Err"
             THEN UNCHANGED <<authenticator, locks, wr, old_tok, incoming>>
             ELSE /\ can_write(locks.tok_w, locks.tok_r)
                  /\ locks' = [locks EXCEPT !.auth_r = @ + 1, !.tok_w = TRUE]
                  /\ old_tok' = token(authenticator)
                  /\ incoming' = [authenticator EXCEPT !.token = l.token]
                  /\ authenticator' =
                        [authenticator EXCEPT
                            !.token = half_stored(token(authenticator), l.token)]
                  /\ wr' = "login"
    /\ UNCHANGED <<rd, seen>>
    /\ UNCHANGED <<mainVars, feedVars>>
    /\ UNCHANGED <<recordVars, total, thread, yielded_comments, calls>>

\* *self.authenticator.write().unwrap() = Box::new(authenticator): the write
\* guard on the authenticator is taken and the store begins.
SetBegin(a) ==
    /\ wr = "idle"
    /\ can_write(locks.auth_w, locks.auth_r)
    /\ locks' = [locks EXCEPT !.auth_w = TRUE]
    /\ old_tok' = token(authenticator)
    /\ incoming' = a
    /\ authenticator' =
          [kind |-> a.kind, token |-> half_stored(token(authenticator), a.token)]
    /\ wr' = "set_authenticator"
    /\ UNCHANGED <<rd, seen>>
    /\ UNCHANGED <<mainVars, feedVars>>
    /\ UNCHANGED <<recordVars, total, thread, yielded_comments, calls>>

\* The store is complete and the writer's guards are dropped.
WriteEnd ==
    /\ wr \in {"login", "set_authenticator"}
    /\ authenticator' = incoming
    /\ locks' = IF wr = "login"
                  THEN [locks EXCEPT !.auth_r = @ - 1, !.tok_w = FALSE]
                  ELSE [locks EXCEPT !.auth_w = FALSE]
    /\ wr' = "idle"
    /\ UNCHANGED <<rd, seen, old_tok, incoming>>
    /\ UNCHANGED <<mainVars, feedVars>>
    /\ UNCHANGED <<recordVars, total, thread, yielded_comments, calls>>

-----------------------------------------------------------------------------
\* things.rs: a raw post record and the Post made of it.

\* The kind tags and ids a server can send, among them some that are not
\* in the form reddit documents.
RawKinds == {"t3", "T3", " t3", "t1"}
RawIds == {"abc", "ABC", "t3_abc", " 0a"}

\* RawKind<RawPostData> as deserialized.
RawPosts ==
    {[kind |-> k,
      data |-> [id |-> i, subreddit |-> "rust", is_self |-> b, selftext |-> t]] :
        k \in RawKinds, i \in RawIds, b \in BOOLEAN, t \in {"", "text"}}

\* RawKind<RawCommentData> as deserialized.
RawCommentRecords ==
    {[kind |-> k, data |-> [id |-> i, body |-> "text"]] :
        k \in RawKinds, i \in RawIds}

\* The record was deserialized as RawKind<RawPostData>.
IsPostRecord(r) == "subreddit" \in DOMAIN r.data

\* No record was received.
NoRecord ==
    /\ record = None
    /\ mapped = None

\* A record of a listing is deserialized.
Deserialize(r) ==
    /\ record' = Some(r)
    /\ mapped' = None
    /\ UNCHANGED <<authenticator, mainVars, feedVars, lockVars, total, thread, yielded_comments, calls>>

\* .map(From::from): the record is made a Post.
MapRecord ==
    /\ record # None
    /\ IsPostRecord(record[1])
    /\ mapped = None
    /\ mapped' = Some(PostFrom(record[1]))
    /\ UNCHANGED record
    /\ UNCHANGED <<authenticator, mainVars, feedVars, lockVars, total, thread, yielded_comments, calls>>

\* .map(From::from) in CommentFeed::next: the record is made a Comment.
MapComment ==
    /\ record # None
    /\ ~IsPostRecord(record[1])
    /\ mapped = None
    /\ mapped' = Some(CommentFrom(record[1]))
    /\ UNCHANGED record
    /\ UNCHANGED <<authenticator, mainVars, feedVars, lockVars, total, thread, yielded_comments, calls>>

-----------------------------------------------------------------------------
\* A server that pages through a listing of `total` posts: a request is
\* answered with the posts that follow the cursor it carries, at most as
\* many as the limit asks for and as a page holds; the page declares the
\* cursor of its last post, or none when no post follows.

\* The cursor that names the position behind the p-th post.
CursorAt(p) == IF p = 0 THEN "" ELSE "c" \o ToString(p)

\* The position a cursor names.
PositionOf(cursor) == CHOOSE p \in 0..total : CursorAt(p) = cursor

Min(a, b) == IF a < b THEN a ELSE b

PageAfter(queries) ==
    LET p == PositionOf(queries.after)
        last == Min(p + Min(queries.limit, MaxPage), total)
    IN  Body("listing",
             IF last < total THEN Some(CursorAt(last)) ELSE None,
             [i \in 1..(last - p) |-> RawPost(p + i)])

\* Answers of that server to the GET in progress: the page asked for, a
\* refusal of the token, or none because the request failed.
PagedResponses ==
    {[net |-> "send_err", status |-> 0, body |-> Garbage],
     [net |-> "ok", status |-> 401, body |-> Garbage],
     [net |-> "ok", status |-> 200, body |-> PageAfter(req[1].queries[1])]}

-----------------------------------------------------------------------------
Init ==
    /\ client = "none"
    /\ authenticator = [kind |-> "application", token |-> None]
    /\ op = "none"
    /\ pc = "ready"
    /\ result = Pending
    /\ req = None
    /\ gets = 0
    /\ logins = 0
    /\ first = 0
    /\ second = 0
    /\ logged = "none"
    /\ getRes = Pending
    /\ after = ""
    /\ limit = DefaultLimit
    /\ cached_posts = <<>>
    /\ item = Pending
    /\ prev_item = Pending
    /\ served = <<>>
    /\ yielded = <<>>
    /\ premise = TRUE
    /\ fetches = 0
    /\ failures = 0
    /\ comment_url = ""
    /\ cached_comments = <<>>
    /\ comment_item = Pending
    /\ yielded_comments = <<>>
    /\ LockIdle
    /\ NoRecord
    /\ total = 0
    /\ thread = <<>>
    /\ calls = NoCalls

\* One step of the get call in progress.
GetStep ==
    \/ pc = "first" /\ \E r \in GetResponses(req[1].url) : FirstReturn(r)
    \/ \E r \in TokenResponses : LoginReturn(r)
    \/ pc = "second" /\ \E r \in GetResponses(req[1].url) : SecondReturn(r)

\* The client: construction, set_authenticator, me, and the comments of a post.
Next ==
    \/ \E a \in Authenticators, ua \in BOOLEAN, r \in TokenResponses : New(a, ua, r)
    \/ \E a \in Authenticators : SetAuthenticator(a)
    \/ Me
    \/ MeReturn
    \/ Comments(Subject) /\ UNCHANGED yielded_comments
    \/ CommentNext /\ UNCHANGED yielded_comments
    \/ CommentNextReturn /\ UNCHANGED yielded_comments
    \/ GetStep

Spec == Init /\ [][Next]_vars

\* The feed of posts of a subreddit, pulled through a client that
\* Reddit::new(ApplicationAuthenticator::new(..), ..) built.
FeedInit ==
    /\ client = "ok"
    /\ authenticator \in {[kind |-> "application", token |-> Some(t)] : t \in Tokens}
    /\ op = "new"
    /\ pc = "ready"
    /\ result = Ok("client")
    /\ req = None
    /\ gets = 0
    /\ logins = 1
    /\ first = 0
    /\ second = 0
    /\ logged = "none"
    /\ getRes = Pending
    /\ after = ""
    /\ limit = DefaultLimit
    /\ cached_posts = <<>>
    /\ item = Pending
    /\ prev_item = Pending
    /\ served = <<>>
    /\ yielded = <<>>
    /\ premise = TRUE
    /\ fetches = 0
    /\ failures = 0
    /\ comment_url = ""
    /\ cached_comments = <<>>
    /\ comment_item = Pending
    /\ yielded_comments = <<>>
    /\ LockIdle
    /\ NoRecord
    /\ total = 0
    /\ thread = <<>>
    /\ calls = NoCalls

FeedNext ==
    \/ PostsSorted
    \/ \E n \in Limits : SetLimit(n)
    \/ PostNext
    \/ PostNextReturn
    \/ GetStep

FeedSpec == FeedInit /\ [][FeedNext]_vars

\* A client that Reddit::new built, shared by a thread that reads the token
\* and a thread that refreshes it or replaces the authenticator.
LockInit ==
    /\ client = "ok"
    /\ authenticator \in {[kind |-> k, token |-> Some(t)] : k \in AuthKinds, t \in Tokens}
    /\ op = "new"
    /\ pc = "ready"
    /\ result = Ok("client")
    /\ req = None
    /\ gets = 0
    /\ logins = 1
    /\ first = 0
    /\ second = 0
    /\ logged = "none"
    /\ getRes = Pending
    /\ after = ""
    /\ limit = DefaultLimit
    /\ cached_posts = <<>>
    /\ item = Pending
    /\ prev_item = Pending
    /\ served = <<>>
    /\ yielded = <<>>
    /\ premise = TRUE
    /\ fetches = 0
    /\ failures = 0
    /\ comment_url = ""
    /\ cached_comments = <<>>
    /\ comment_item = Pending
    /\ yielded_comments = <<>>
    /\ locks = Unlocked
    /\ rd = "idle"
    /\ wr = "idle"
    /\ seen = None
    /\ old_tok = token(authenticator)
    /\ incoming = authenticator
    /\ NoRecord
    /\ total = 0
    /\ thread = <<>>
    /\ calls = NoCalls

LockNext ==
    \/ ReadBegin
    \/ ReadEnd
    \/ \E r \in TokenResponses : LoginBegin(r)
    \/ \E a \in Authenticators : SetBegin(a)
    \/ WriteEnd

LockSpec == LockInit /\ [][LockNext]_vars

\* The feed of posts pulled from a server that pages honestly through a
\* listing of up to MaxListing posts.
PagedInit ==
    /\ client = "ok"
    /\ authenticator \in {[kind |-> "application", token |-> Some(t)] : t \in Tokens}
    /\ op = "new"
    /\ pc = "ready"
    /\ result = Ok("client")
    /\ req = None
    /\ gets = 0
    /\ logins = 1
    /\ first = 0
    /\ second = 0
    /\ logged = "none"
    /\ getRes = Pending
    /\ after = ""
    /\ limit = DefaultLimit
    /\ cached_posts = <<>>
    /\ item = Pending
    /\ prev_item = Pending
    /\ served = <<>>
    /\ yielded = <<>>
    /\ premise = TRUE
    /\ fetches = 0
    /\ failures = 0
    /\ comment_url = ""
    /\ cached_comments = <<>>
    /\ comment_item = Pending
    /\ yielded_comments = <<>>
    /\ LockIdle
    /\ NoRecord
    /\ total \in 0..MaxListing
    /\ thread = <<>>
    /\ calls = NoCalls

PagedGetStep ==
    \/ pc = "first" /\ \E r \in PagedResponses : FirstReturn(r)
    \/ \E r \in TokenResponses : LoginReturn(r)
    \/ pc = "second" /\ \E r \in PagedResponses : SecondReturn(r)

PagedNext ==
    \/ PostsSorted
    \/ \E n \in Limits : SetLimit(n)
    \/ PostNext
    \/ PostNextReturn
    \/ PagedGetStep

PagedSpec == PagedInit /\ [][PagedNext]_vars

\* Answers to the GET of a feed whose token is accepted: the request fails,
\* or the body is one of those the url can have.
AcceptedResponses ==
    {[net |-> "send_err", status |-> 0, body |-> Garbage]}
    \cup {[net |-> "ok", status |-> 200, body |-> b] : b \in Bodies(req[1].url)}

\* A caller that holds a feed of posts and a feed of the comments of a post,
\* and pulls from either.
BufferNext ==
    \/ PostsSorted
    \/ PostNext
    \/ PostNextReturn
    \/ Comments(Subject) /\ UNCHANGED yielded_comments
    \/ CommentNext /\ UNCHANGED yielded_comments
    \/ CommentNextReturn /\ UNCHANGED yielded_comments
    \/ pc = "first" /\ \E r \in AcceptedResponses : FirstReturn(r)

BufferSpec == FeedInit /\ [][BufferNext]_vars

\* The records of a page, deserialized and mapped one by one.
RecordNext ==
    \/ \E r \in RawPosts \cup RawCommentRecords : Deserialize(r)
    \/ MapRecord
    \/ MapComment

RecordSpec == FeedInit /\ [][RecordNext]_vars

\* The comment listings a server can hold for a post: comments with ids of
\* their own, in any order.
Threads ==
    {s \in SeqsUpTo(RawComments, MaxItem) :
        \A i, j \in 1..Len(s) : i # j => s[i].data.id # s[j].data.id}

\* Answers of a server that returns that listing, behind the listing that
\* holds the post, on every request to the comments URL: the listing, a
\* refusal of the token, or none because the request failed.
ThreadResponses ==
    {[net |-> "send_err", status |-> 0, body |-> Garbage],
     [net |-> "ok", status |-> 401, body |-> Garbage],
     [net |-> "ok", status |-> 200,
      body |-> CommentsBody([kind |-> "Listing", children |-> <<RawPost(0)>>],
                            thread)]}

\* A client built with a token, in front of a server that holds `total`
\* posts and, for each post, the comments `thread`.
ServedInit(totals, threads) ==
    /\ client = "ok"
    /\ authenticator \in {[kind |-> "application", token |-> Some(t)] : t \in Tokens}
    /\ op = "new"
    /\ pc = "ready"
    /\ result = Ok("client")
    /\ req = None
    /\ gets = 0
    /\ logins = 1
    /\ first = 0
    /\ second = 0
    /\ logged = "none"
    /\ getRes = Pending
    /\ after = ""
    /\ limit = DefaultLimit
    /\ cached_posts = <<>>
    /\ item = Pending
    /\ prev_item = Pending
    /\ served = <<>>
    /\ yielded = <<>>
    /\ premise = TRUE
    /\ fetches = 0
    /\ failures = 0
    /\ comment_url = ""
    /\ cached_comments = <<>>
    /\ comment_item = Pending
    /\ yielded_comments = <<>>
    /\ LockIdle
    /\ NoRecord
    /\ total \in totals
    /\ thread \in threads
    /\ calls = NoCalls

\* The caller keeps the comment the step yields, if it yields one.
KeepYielded ==
    yielded_comments' =
        IF pc' = "ready" /\ comment_item'.tag = "Ok"
          THEN Append(yielded_comments, comment_item'.val[1])
          ELSE yielded_comments

ThreadGetStep ==
    \/ pc = "first" /\ \E r \in ThreadResponses : FirstReturn(r)
    \/ \E r \in TokenResponses : LoginReturn(r)
    \/ pc = "second" /\ \E r \in ThreadResponses : SecondReturn(r)

\* A caller that makes a CommentFeed and pulls up to MaxPull comments from
\* it, keeping them.
ThreadNext ==
    \/ Comments(Subject) /\ yielded_comments' = <<>>
    \/ Len(yielded_comments) < MaxPull /\ CommentNext /\ KeepYielded
    \/ CommentNextReturn /\ KeepYielded
    \/ ThreadGetStep

ThreadSpec == ServedInit({0}, Threads) /\ [][ThreadNext]_vars

\* Answers of the server to a feed's GET: a page of posts to the feed of
\* posts, the comments of the post to a feed of comments.
ServedResponses ==
    IF req[1].url = "posts" THEN PagedResponses ELSE ThreadResponses

ServedGetStep ==
    \/ pc = "first" /\ \E r \in ServedResponses : FirstReturn(r)
    \/ \E r \in TokenResponses : LoginReturn(r)
    \/ pc = "second" /\ \E r \in ServedResponses : SecondReturn(r)

\* A caller that makes feeds of posts and feeds of the comments of the
\* posts it holds, and pulls from either.
FeedsNext ==
    \/ PostsSorted
    \/ PostNext
    \/ PostNextReturn
    \/ \E p \in Subjects : Comments(p) /\ UNCHANGED yielded_comments
    \/ CommentNext /\ UNCHANGED yielded_comments
    \/ CommentNextReturn /\ UNCHANGED yielded_comments
    \/ ServedGetStep

FeedsSpec ==
    ServedInit({MaxListing}, {[i \in 1..MaxItem |->
                                 [kind |-> "t1", data |-> [id |-> i, body |-> "text"]]]})
        /\ [][FeedsNext]_vars

-----------------------------------------------------------------------------
\* auth.rs, reddit.rs: threads that share one client (Reddit is Clone and
\* holds an Arc of the AuthenticatedClient).  A call is cut where it takes
\* the RwLock around the authenticator and where it waits for the network.
\* The guard of a read() in the scrutinee of an `if let` lives to the end
\* of the `if let`, so the GET of either block of get is sent and answered
\* under a read guard, and so is the token request of login (the guard
\* lives to the end of that statement); between the blocks the thread
\* holds no guard.  The guard of the read() in the condition of the `if`
\* of me is dropped before get is called.  The RwLock inside an
\* authenticator is taken only under a guard of the outer one and held for
\* a clone or an assignment, during which nothing waits: those sections
\* are part of the step that enters them.  std's RwLock leaves open who
\* goes first when readers and a writer wait: a read guard is granted
\* whenever no write guard is held, the write guard when no guard is held.

\* The threads that hold a read guard on the authenticator.
Readers == {t \in Callers : calls[t].pc \in {"first", "login", "second"}}

\* The threads whose set_authenticator waits for the write guard.
Writers == {t \in Callers : calls[t].pc = "set_wait"}

\* Answers to the GET of a call.
RaceResponses ==
    {r \in GetResponses("me") :
        \/ r.net = "send_err"
        \/ r.status \in {401, 500}
        \/ r.status = 200 /\ r.body.shape = "me"}

\* Answers of the token endpoint to the login of a call.
RaceTokenResponses ==
    {r \in TokenResponses :
        \/ r.net = "send_err"
        \/ r.status = 200 /\ r.shape = "token"
        \/ r.status = 401 /\ r.shape = "other"}

\* The call of thread t returns r: me makes its own result of what get
\* returned to it.
Return(t, r) ==
    [calls[t] EXCEPT !.pc = "done",
                     !.res = IF calls[t].op = "me" THEN me_result(r) ELSE r]

\* No variable but the authenticator and the calls belongs to the threads.
RaceFrame ==
    UNCHANGED <<mainVars, feedVars, lockVars, recordVars, total, thread,
                yielded_comments>>

\* get, first block, up to the first GET: the read guard is taken and the
\* token cloned; with a token the GET is sent under the guard, without one
\* the block is skipped and the guard dropped.
first_block(t, caller) ==
    LET c == [op |-> caller, pc |-> "done", res |-> Pending, arg |-> None,
              since |-> IF calls[t].pc = "done" THEN Writers ELSE calls[t].since]
    IN  IF token(authenticator) = None
          THEN calls' = [calls EXCEPT ![t] = [c EXCEPT !.pc = "pre_login"]]
        ELSE IF header_ok(token(authenticator)[1])
          THEN calls' = [calls EXCEPT ![t] = [c EXCEPT !.pc = "first"]]
        ELSE calls' = [calls EXCEPT ![t] =
                          [c EXCEPT !.pc = "done", !.res = Err(InvalidHeaderValue)]]

\* A thread calls get (as a feed does).
RaceGet(t) ==
    /\ calls[t].pc = "done"
    /\ client = "ok"
    /\ first_block(t, "get")
    /\ UNCHANGED authenticator
    /\ RaceFrame

\* The first GET of a call is answered; the guard is dropped.
RaceFirstReturn(t, response) ==
    /\ calls[t].pc = "first"
    /\ IF response.net = "send_err"
         THEN calls' = [calls EXCEPT ![t] = Return(t, Err(RequestError))]
         ELSE LET checked == check_auth(response)
              IN  IF checked.tag = "Err"
                    THEN calls' = [calls EXCEPT ![t] = Return(t, checked)]
                  ELSE IF checked.val[1]
                    THEN calls' = [calls EXCEPT ![t] = Return(t, Ok(response.body))]
                  ELSE calls' = [calls EXCEPT ![t].pc = "pre_login"]
    /\ UNCHANGED authenticator
    /\ RaceFrame

\* self.authenticator.read().unwrap().login(..): the guard is taken and the
\* token request sent.
RaceLoginBegin(t) ==
    /\ calls[t].pc = "pre_login"
    /\ calls' = [calls EXCEPT ![t].pc = "login"]
    /\ UNCHANGED authenticator
    /\ RaceFrame

\* The token request is answered: login stores the token or returns the
\* error, and the guard is dropped.
RaceLoginReturn(t, response) ==
    /\ calls[t].pc = "login"
    /\ LET l == login(authenticator, response)
       IN  /\ authenticator' = [authenticator EXCEPT !.token = l.token]
           /\ IF l.res.tag = "Err"
                THEN calls' = [calls EXCEPT ![t] = Return(t, l.res)]
                ELSE calls' = [calls EXCEPT ![t].pc = "pre_second"]
    /\ RaceFrame

\* get, second block, up to the re-issued GET: the guard is taken again
\* and the token cloned again.
RaceSecondBegin(t) ==
    /\ calls[t].pc = "pre_second"
    /\ IF token(authenticator) = None
         THEN calls' = [calls EXCEPT ![t] =
                           Return(t, Err(AuthenticationError("token_not_set")))]
       ELSE IF header_ok(token(authenticator)[1])
         THEN calls' = [calls EXCEPT ![t].pc = "second"]
       ELSE calls' = [calls EXCEPT ![t] = Return(t, Err(InvalidHeaderValue))]
    /\ UNCHANGED authenticator
    /\ RaceFrame

\* The re-issued GET is answered; the guard is dropped.
RaceSecondReturn(t, response) ==
    /\ calls[t].pc = "second"
    /\ calls' = [calls EXCEPT ![t] = Return(t, second_attempt(response))]
    /\ UNCHANGED authenticator
    /\ RaceFrame

\* Reddit::me, the condition of its `if`: is_logged_in under a read guard
\* that is dropped before the branch is entered.
RaceMe(t) ==
    /\ calls[t].pc = "done"
    /\ client = "ok"
    /\ calls' = [calls EXCEPT ![t] =
                    [op |-> "me", arg |-> None, since |-> Writers,
                     pc |-> IF is_logged_in(authenticator) THEN "me_get" ELSE "done",
                     res |-> IF is_logged_in(authenticator) THEN Pending
                             ELSE Err(NotLoggedInError)]]
    /\ UNCHANGED authenticator
    /\ RaceFrame

\* Reddit::me, the branch taken: it calls get.
RaceMeGet(t) ==
    /\ calls[t].pc = "me_get"
    /\ first_block(t, "me")
    /\ UNCHANGED authenticator
    /\ RaceFrame

\* Reddit::refresh_token: the refresh token of the authenticator, read
\* under a read guard.
RaceRefreshToken(t) ==
    /\ calls[t].pc = "done"
    /\ client = "ok"
    /\ calls' = [calls EXCEPT ![t] =
                    [op |-> "refresh_token", pc |-> "done", arg |-> None,
                     since |-> Writers,
                     res |-> Ok(IF authenticator.kind = "user" THEN "Some"
                                ELSE "None")]]
    /\ UNCHANGED authenticator
    /\ RaceFrame

\* set_authenticator asks for the write guard: with no guard held it is
\* granted at once, the authenticator stored and the call over; otherwise
\* the thread waits.
RaceSetBegin(t, a) ==
    /\ calls[t].pc = "done"
    /\ client = "ok"
    /\ IF Readers = {}
         THEN /\ authenticator' = a
              /\ calls' = [calls EXCEPT ![t] =
                              [op |-> "set_authenticator", pc |-> "done",
                               res |-> Ok("unit"), arg |-> Some(a), since |-> {}]]
         ELSE /\ UNCHANGED authenticator
              /\ calls' = [calls EXCEPT ![t] =
                              [op |-> "set_authenticator", pc |-> "set_wait",
                               res |-> Pending, arg |-> Some(a), since |-> {}]]
    /\ RaceFrame

\* A set_authenticator that waits is granted the write guard, stores the
\* authenticator and returns.
RaceSetStore(t) ==
    /\ calls[t].pc = "set_wait"
    /\ Readers = {}
    /\ authenticator' = calls[t].arg[1]
    /\ calls' = [u \in Callers |->
                    IF u = t THEN [calls[t] EXCEPT !.pc = "done", !.res = Ok("unit")]
                    ELSE [calls[u] EXCEPT !.since = calls[u].since \ {t}]]
    /\ RaceFrame

\* A step of a call that has begun.
RaceStep ==
    \E t \in Callers :
        \/ \E r \in RaceResponses : RaceFirstReturn(t, r)
        \/ RaceLoginBegin(t)
        \/ \E r \in RaceTokenResponses : RaceLoginReturn(t, r)
        \/ RaceSecondBegin(t)
        \/ \E r \in RaceResponses : RaceSecondReturn(t, r)
        \/ RaceMeGet(t)
        \/ RaceSetStore(t)

\* A thread begins a call.
RaceCall ==
    \E t \in Callers :
        \/ RaceGet(t)
        \/ RaceMe(t)
        \/ RaceRefreshToken(t)
        \/ \E a \in Authenticators : RaceSetBegin(t, a)

RaceNext ==
    \/ RaceCall
    \/ RaceStep

RaceSpec == ServedInit({0}, {<<>>}) /\ [][RaceNext]_vars

-----------------------------------------------------------------------------
\* Properties of AuthenticatedClient::get, Reddit::me and Reddit::new,
\* checked under Spec.

\* get has returned to its caller, which has not resumed yet.
GetReturned == pc = "ret"

\* C1: when the first GET is answered 401, the login that follows succeeds
\* and the re-issued GET is answered 200, get returns Ok, and it has called
\* login exactly once (and sent exactly two GETs).
RefreshThenSuccess ==
    (GetReturned /\ first = 401 /\ logged = "ok" /\ second = 200)
        => (getRes.tag = "Ok" /\ logins = 1 /\ gets = 2)

RefreshThenSuccessWitness ==
    GetReturned /\ first = 401 /\ logged = "ok" /\ second = 200 /\ getRes.tag = "Ok"

\* C2: when the first GET and the GET re-issued after a successful login are
\* both answered 401, get has returned an AuthenticationError after exactly
\* two GETs: no request of the call is in flight any more.
SecondRefusalFails ==
    (first = 401 /\ second = 401)
        => /\ GetReturned
           /\ logged = "ok"
           /\ getRes.tag = "Err"
           /\ getRes.err.kind = "AuthenticationError"
           /\ gets = 2

SecondRefusalFailsWitness ==
    GetReturned /\ first = 401 /\ second = 401 /\ getRes.tag = "Err" /\ gets = 2

\* The suspension points of a call in the order get passes them.
Rank(p) ==
    IF p = "first" THEN 1
    ELSE IF p = "login" THEN 2
    ELSE IF p = "second" THEN 3
    ELSE IF p = "ret" THEN 4
    ELSE 5

\* Whatever the network answers, the call in progress can take its next step.
NeverBlocked ==
    /\ pc = "first" => \A r \in GetResponses(req[1].url) : ENABLED FirstReturn(r)
    /\ pc = "login" => \A r \in TokenResponses : ENABLED LoginReturn(r)
    /\ pc = "second" => \A r \in GetResponses(req[1].url) : ENABLED SecondReturn(r)
    /\ pc = "ret" => ENABLED (MeReturn \/ CommentNextReturn \/ PostNextReturn)

\* C3: a call of get sends at most two GETs and calls login at most once,
\* whatever the token, the statuses and the login's outcome; every answer of
\* the network moves the call forward through first GET, login, re-issued
\* GET and return, never back, and what get returns is Ok or Err.
AtMostOneRetry ==
    /\ []NeverBlocked
    /\ [][/\ gets' <= 2
          /\ logins' <= 1
          /\ (pc # "ready" => Rank(pc') > Rank(pc))
          /\ (pc' = "ret" => getRes'.tag \in {"Ok", "Err"})]_vars

AtMostOneRetryWitness ==
    GetReturned /\ gets = 2 /\ logins = 1 /\ first = 403 /\ second = 500

\* C8: a call of me made while the authenticator reports is_logged_in = false
\* returns NotLoggedInError at once, without calling get: no GET is sent and
\* login is not called.
MeNeedsUser ==
    [][(pc = "ready" /\ op' = "me" /\ ~is_logged_in(authenticator))
          => /\ pc' = "ready"
             /\ result' = Err(NotLoggedInError)
             /\ req' = None
             /\ gets' = 0
             /\ logins' = 0]_vars

MeNeedsUserWitness ==
    /\ pc = "ready"
    /\ op = "me"
    /\ result = Err(NotLoggedInError)
    /\ authenticator.kind = "application"
    /\ token(authenticator) # None

\* C9 as stated: construction calls login exactly once, a failed login gives
\* an error and no client, a successful one a client holding a token.
NewLogsInOnce ==
    op = "new"
        => /\ logins = 1
           /\ result.tag = "Err" => client = "none"
           /\ result.tag = "Ok" => client = "ok" /\ token(authenticator) # None

\* C9, amended: unless make_client fails (then construction returns that
\* error, without calling login and without a client), construction calls
\* login exactly once; a failed login gives its error and no client, a
\* successful one a client whose authenticator holds a token.
NewLogsInOnceIfBuilt ==
    op = "new"
        => IF result = Err(BuilderError)
             THEN logins = 0 /\ client = "none"
             ELSE /\ logins = 1
                  /\ result.tag \in {"Ok", "Err"}
                  /\ result.tag = "Err" => client = "none"
                  /\ result.tag = "Ok" => client = "ok" /\ token(authenticator) # None

NewLogsInOnceWitness ==
    op = "new" /\ logins = 1 /\ result.tag = "Ok" /\ client = "ok"
        /\ token(authenticator) # None

\* C10: when the first GET is answered 200, get returns Ok with that answer
\* after this one GET, without calling login; neither sending the GET nor
\* its answer changes the authenticator or its token.
FastPath ==
    [][/\ (pc = "ready" /\ pc' = "first") => authenticator' = authenticator
       /\ (pc = "first" /\ first' = 200)
            => /\ pc' = "ret"
               /\ getRes'.tag = "Ok"
               /\ getRes'.val[1] \in Bodies(req[1].url)
               /\ gets' = 1
               /\ logins' = 0
               /\ authenticator' = authenticator]_vars

FastPathWitness ==
    GetReturned /\ first = 200 /\ getRes.tag = "Ok" /\ gets = 1 /\ logins = 0

\* C11: when the first GET is answered with a status other than 200, 401
\* and 403, get returns an error at that step: login is not called, no
\* second GET is sent, and the authenticator and its token are unchanged.
UnexpectedStatusReturns ==
    [][(pc = "first" /\ first' \notin {0, 200, 401, 403})
          => /\ pc' = "ret"
             /\ getRes'.tag = "Err"
             /\ logins' = 0
             /\ logged' = "none"
             /\ gets' = 1
             /\ second' = 0
             /\ authenticator' = authenticator]_vars

UnexpectedStatusReturnsWitness ==
    /\ GetReturned
    /\ first = 500
    /\ getRes.tag = "Err"
    /\ gets = 1
    /\ logins = 0
    /\ token(authenticator) # None

\* The token made of the record the token endpoint answered with.
Issued(response) == Some(TokenFrom(TokenJson(response.access_token)))

\* C12: for each variant of authenticator, a login that succeeds (inside get
\* or at construction) stores the token made of the record just issued, all
\* its fields, in place of whatever was stored; a login that fails, because
\* the request failed or the answer was rejected, leaves the authenticator,
\* with its token or without one, as it was.
LoginReplacesOrKeeps ==
    [][\A r \in TokenResponses :
         /\ LoginReturn(r)
              => IF logged' = "ok"
                   THEN /\ r.net = "ok"
                        /\ r.shape \in {"token", "both"}
                        /\ token(authenticator') = Issued(r)
                        /\ authenticator'.kind = authenticator.kind
                   ELSE /\ logged' = "err"
                        /\ getRes'.tag = "Err"
                        /\ authenticator' = authenticator
         /\ \A a \in Authenticators :
              (New(a, TRUE, r) /\ result'.tag = "Ok")
                  => authenticator' = [kind |-> a.kind, token |-> Issued(r)]]_vars

LoginReplacesOrKeepsWitness ==
    /\ GetReturned
    /\ logged = "err"
    /\ first = 401
    /\ authenticator.kind = "script"
    /\ token(authenticator) = Some(TokenFrom(TokenJson(1)))

\* The statuses get knows: 200, and the two that ask for a refresh.
KnownStatuses == {200, 401, 403}

\* C15 as stated: an answer with a status other than 200, 401 and 403, to
\* the first GET or to the re-issued one, makes get return an error of a
\* kind of its own, which is not the AuthenticationError that reports a
\* failed refresh or a second 401 or 403.
UnexpectedStatusHasOwnKind ==
    (/\ GetReturned
     /\ \/ first \in Statuses \ KnownStatuses
        \/ second \in Statuses \ KnownStatuses)
        => /\ getRes.tag = "Err"
           /\ getRes.err.kind # "AuthenticationError"

\* What get returns instead: at the re-issued GET the very error of a
\* second 401.
UnexpectedStatusHasOwnKindWitness ==
    /\ GetReturned
    /\ first = 401
    /\ second = 500
    /\ getRes = Err(AuthenticationError("still_unauthenticated"))

\* C16 as stated: after a first answer of 403 or 401 and a login that
\* succeeded, get has called login once and sent the GET twice; started
\* without a token, it has called login once and sent the GET once.
RefreshReissuesOnce ==
    (GetReturned /\ logged = "ok")
        => /\ logins = 1
           /\ gets = (IF first \in {401, 403} THEN 2 ELSE 1)

\* C16, amended: an answer of 403 to the first GET is handled as one of 401:
\* login is called, once, and nothing else changes.  Started without a
\* token, get calls login before any GET.  When the login succeeds and the
\* token it stored makes a header value, the GET is sent then, once: twice
\* in all after a 401 or 403, once in all without a token at the start;
\* when the token makes no header value, get returns InvalidHeaderValue
\* without sending it.
RefreshReissuesOnceIfSendable ==
    /\ []((GetReturned /\ logged = "ok")
            => /\ logins = 1
               /\ first \in {0, 401, 403}
               /\ IF header_ok(token(authenticator)[1])
                    THEN gets = (IF first \in {401, 403} THEN 2 ELSE 1)
                    ELSE /\ gets = (IF first \in {401, 403} THEN 1 ELSE 0)
                         /\ getRes = Err(InvalidHeaderValue))
    /\ [][/\ (pc = "first" /\ first' \in {401, 403})
               => /\ pc' = "login"
                  /\ logins' = 1
                  /\ gets' = 1
                  /\ authenticator' = authenticator
          /\ (pc = "ready" /\ pc' # "ready" /\ token(authenticator) = None)
               => /\ pc' = "login"
                  /\ logins' = 1
                  /\ gets' = 0
          /\ (pc = "login" /\ logged' = "ok")
               => IF header_ok(token(authenticator')[1])
                    THEN pc' = "second" /\ gets' = gets + 1
                    ELSE pc' = "ret" /\ gets' = gets
          /\ (pc = "second") => (pc' = "ret" /\ gets' = gets /\ logins' = logins)]_vars

RefreshReissuesOnceWitness ==
    /\ GetReturned
    /\ first = 403
    /\ logged = "ok"
    /\ second = 200
    /\ gets = 2
    /\ logins = 1

\* C17: when the login called by get fails, after a first answer of 401 or
\* 403 or with no token stored, get returns at that step, with the error
\* login returned, and sends no GET after it.
FailedLoginEndsGet ==
    /\ []((GetReturned /\ logged = "err")
            => /\ getRes.tag = "Err"
               /\ second = 0
               /\ first \in {0, 401, 403}
               /\ gets = (IF first \in {401, 403} THEN 1 ELSE 0))
    /\ [][\A r \in TokenResponses :
            (LoginReturn(r) /\ login(authenticator, r).res.tag = "Err")
                => /\ pc' = "ret"
                   /\ getRes' = login(authenticator, r).res
                   /\ logged' = "err"
                   /\ gets' = gets]_vars

FailedLoginEndsGetWitness ==
    /\ GetReturned
    /\ logged = "err"
    /\ first = 403
    /\ gets = 1
    /\ getRes = Err(AuthenticationError("credentials: invalid_grant"))

\* C22: an answer of the token endpoint whose body could be read is
\* classified in this order.  A body with the fields of a token record is a
\* success, whatever the status and whatever else the body holds, and its
\* token is stored.  Otherwise a body {"error": reason} gives an
\* AuthenticationError carrying the reason; otherwise the status 401 gives
\* the AuthenticationError about client id and secret; otherwise the
\* AuthenticationError carries the status.  No answer with an error body
\* stores a token, and at construction none gives a client, also with
\* status 200.
TokenAnswerClassified ==
    [][\A r \in TokenResponses :
         /\ (LoginReturn(r) /\ r.net = "ok")
              => IF r.shape \in {"token", "both"}
                   THEN logged' = "ok" /\ token(authenticator') = Issued(r)
                   ELSE /\ logged' = "err"
                        /\ pc' = "ret"
                        /\ authenticator' = authenticator
                        /\ getRes'.tag = "Err"
                        /\ getRes'.err.kind = "AuthenticationError"
                        /\ getRes'.err.msg =
                              (IF r.shape = "error" THEN "credentials: " \o r.error
                               ELSE IF r.status = 401 THEN "unauthorized"
                               ELSE "unexpected: " \o ToString(r.status))
         /\ \A a \in Authenticators :
              (New(a, TRUE, r) /\ r.net = "ok" /\ r.shape = "error")
                  => /\ client' = "none"
                     /\ result' = Err(AuthenticationError("credentials: " \o r.error))]_vars

TokenAnswerClassifiedWitness ==
    /\ op = "new"
    /\ client = "none"
    /\ result = Err(AuthenticationError("credentials: unsupported_grant_type"))

\* C23: is_logged_in is determined by the variant of the authenticator
\* alone, in every state: true for a script and a user authenticator, also
\* before its first successful login, and false for an application one.
IsUserByVariant ==
    client = "ok"
        => (is_logged_in(authenticator) <=> authenticator.kind \in {"script", "user"})

\* me() refused under a script authenticator that has not logged in yet.
IsUserByVariantWitness ==
    /\ op = "me"
    /\ pc = "ready"
    /\ authenticator.kind = "script"
    /\ authenticator.token = None
    /\ result = Err(NotLoggedInError)

-----------------------------------------------------------------------------
\* Properties of PostFeed::next, checked under FeedSpec.

Post(i) == PostFrom(RawPost(i))

\* The last call of next has returned.
NextReturned == pc = "ready" /\ op = "post_next"

\* C4: as long as every non-empty page served declared a non-empty next
\* cursor, the posts yielded, followed by those still buffered, are the
\* concatenation of the pages served, in the server's order within and
\* across pages; an empty page makes next return None, and next returns
\* None only then, with every post of every page yielded.
FeedYieldsConcatenation ==
    premise
        => /\ yielded \o Reverse(cached_posts) = Concat(served)
           /\ (NextReturned /\ item.tag = "Ok")
                => yielded # <<>> /\ item.val[1] = yielded[Len(yielded)]
           /\ (NextReturned /\ served # <<>> /\ served[Len(served)] = <<>>)
                => item.tag \in {"None", "Err"}
           /\ (NextReturned /\ item.tag = "None")
                => /\ served # <<>>
                   /\ served[Len(served)] = <<>>
                   /\ yielded = Concat(served)

FeedYieldsConcatenationWitness ==
    /\ NextReturned
    /\ item.tag = "None"
    /\ premise
    /\ served = <<<<Post(1), Post(2)>>, <<Post(3)>>, <<>>>>
    /\ yielded = <<Post(1), Post(2), Post(3)>>

\* The page fetch of the call of next in progress failed: get returned an
\* error, or a body that cannot be read or is no listing.
FetchFailed ==
    /\ pc = "ret"
    /\ op = "post_next"
    /\ IF getRes.tag = "Err" THEN TRUE ELSE getRes.val[1].shape # "listing"

\* C5: no step of a call of next changes the feed's cursor or buffer, except
\* the one that returns a post or None; so a call whose page fetch fails, for
\* whatever reason, leaves both as they were before it.  Every page request
\* carries the cursor the feed holds, so that the fetch of a later call asks
\* for the page after the same cursor.
FailedFetchKeepsCursor ==
    [][/\ (op' = "post_next" /\ ~(pc' = "ready" /\ item'.tag \in {"Ok", "None"}))
            => (after' = after /\ cached_posts' = cached_posts)
       /\ FetchFailed
            => (after' = after /\ cached_posts' = cached_posts /\ item'.tag = "Err")
       /\ (pc = "ready" /\ op' = "post_next" /\ pc' # "ready")
            => req'[1].queries[1].after = after]_vars

FailedFetchKeepsCursorWitness ==
    /\ NextReturned
    /\ prev_item = Err(APIParseError)
    /\ item = Ok(Post(2))
    /\ served = <<<<Post(1)>>, <<Post(2)>>>>
    /\ after = "c2"

\* C6: a failed page fetch makes next return Some(Err(e)), with the error of
\* get when it was get that failed, and never None; the call of next that
\* follows one that returned an error finds the buffer empty and starts a
\* page fetch of its own.
ErrorIsOneElement ==
    [][/\ FetchFailed
            => /\ pc' = "ready"
               /\ item'.tag = "Err"
               /\ getRes.tag = "Err" => item' = getRes
               /\ served' = served
       /\ (pc = "ready" /\ op' = "post_next" /\ item.tag = "Err")
            => /\ cached_posts = <<>>
               /\ req' # None
               /\ fetches' = fetches + 1
               /\ item' = Pending]_vars

ErrorIsOneElementWitness ==
    /\ op = "post_next"
    /\ pc = "first"
    /\ prev_item.tag = "Err"
    /\ after = "c1"

\* C7: a call of next made with an empty buffer starts exactly one page
\* fetch, a call made with a non-empty buffer starts none and returns a post
\* at once, and no further fetch starts while a call is in progress.  So
\* every fetch is one parsed page or one failure; the pages [A, B], [C]
\* are served, without a failure, by exactly 2 fetches, and None is returned
\* only at the return of a fetch, on an empty page.
OneFetchPerEmptyBuffer ==
    /\ [](pc = "ready" => fetches = Len(served) + failures)
    /\ []((pc = "ready" /\ failures = 0
             /\ served = <<<<Post(1), Post(2)>>, <<Post(3)>>>>)
            => (fetches = 2 /\ item.tag \in {"Ok", "-"}))
    /\ [][/\ (pc = "ready" /\ op' = "post_next")
               => IF cached_posts = <<>>
                    THEN fetches' = fetches + 1 /\ req' # None /\ pc' # "ready"
                    ELSE fetches' = fetches /\ req' = None /\ pc' = "ready"
                         /\ item'.tag = "Ok"
          /\ (pc # "ready" => fetches' = fetches)
          /\ (item'.tag = "None" /\ item.tag # "None")
               => (pc = "ret" /\ served' # served
                     /\ served'[Len(served')] = <<>>)]_vars

OneFetchPerEmptyBufferWitness ==
    /\ NextReturned
    /\ served = <<<<Post(1), Post(2)>>, <<Post(3)>>>>
    /\ yielded = <<Post(1), Post(2), Post(3)>>
    /\ item = Ok(Post(3))
    /\ fetches = 2

-----------------------------------------------------------------------------
\* Properties of PostFeed::next against a server that pages honestly,
\* checked under PagedSpec.

\* C19 as stated: against a server that answers with the page following the
\* cursor requested, and whose last non-empty page declares no cursor, no
\* post is yielded twice; and the page fetched once every post of the
\* listing was yielded is empty, so that next returns None.
PagedFeedEnds ==
    /\ \A i, j \in 1..Len(yielded) : yielded[i] = yielded[j] => i = j
    /\ (/\ NextReturned
        /\ item.tag # "Err"
        /\ Len(served) >= 2
        /\ served[Len(served) - 1] # <<>>
        /\ served[Len(served) - 1][Len(served[Len(served) - 1])] = Post(total))
            => (served[Len(served)] = <<>> /\ item.tag = "None")

\* What the feed does instead: the fetch after the last page carries the
\* cursor of the page before it, the last page is served again, and its
\* post is yielded a second time.
PagedFeedEndsWitness ==
    /\ NextReturned
    /\ total = 3
    /\ limit = DefaultLimit
    /\ after = CursorAt(2)
    /\ served = <<<<Post(1), Post(2)>>, <<Post(3)>>, <<Post(3)>>>>
    /\ yielded = <<Post(1), Post(2), Post(3), Post(3)>>
    /\ item = Ok(Post(3))

-----------------------------------------------------------------------------
\* Properties of the buffers of both feeds, checked under BufferSpec.

\* All but the last element of a non-empty sequence.
Front(s) == SubSeq(s, 1, Len(s) - 1)

\* The comments of a parsed page, mapped, in the server's order.
CommentsOf(body) == [i \in 1..Len(body.children) |-> CommentFrom(body.children[i])]

\* get returned a body that parses as the comments of a post.
CommentsParsed ==
    /\ pc = "ret"
    /\ op = "comment_next"
    /\ getRes.tag = "Ok"
    /\ getRes.val[1].shape = "comments"

\* C20: the buffer of a PostFeed is, reversed, the part of the page parsed
\* last that comes after the posts of it already yielded, and no post in it
\* was yielded; a buffer, of posts or of comments, is empty while a fetch is
\* in progress, is filled by a parsed page with the reverse of that page
\* less its first record, which is returned, and otherwise only loses its
\* last element: it never holds records of two pages.
BufferIsRestOfLastPage ==
    /\ [](IF served = <<>> THEN cached_posts = <<>>
           ELSE LET page == served[Len(served)]
                    k == Len(page) - Len(cached_posts)
                IN  /\ k >= 0
                    /\ k <= Len(yielded)
                    /\ Reverse(cached_posts) = SubSeq(page, k + 1, Len(page))
                    /\ SubSeq(yielded, Len(yielded) - k + 1, Len(yielded))
                          = SubSeq(page, 1, k)
                    /\ \A i \in 1..Len(cached_posts), j \in 1..Len(yielded) :
                          cached_posts[i] # yielded[j])
    /\ []((pc # "ready" /\ op = "post_next") => cached_posts = <<>>)
    /\ []((pc # "ready" /\ op = "comment_next") => cached_comments = <<>>)
    /\ [][/\ (cached_posts # <<>> /\ op' # "posts_sorted")
               => cached_posts' \in {cached_posts, Front(cached_posts)}
          /\ (cached_comments # <<>> /\ op' # "comments")
               => cached_comments' \in {cached_comments, Front(cached_comments)}
          /\ (CommentsParsed /\ getRes.val[1].children # <<>>)
               => /\ comment_item' = Ok(Head(CommentsOf(getRes.val[1])))
                  /\ cached_comments' = Reverse(Tail(CommentsOf(getRes.val[1])))
          /\ (cached_comments' # cached_comments /\ cached_comments = <<>>)
               => CommentsParsed]_vars

BufferIsRestOfLastPageWitness ==
    /\ pc = "ready"
    /\ served = <<<<Post(1)>>, <<Post(2), Post(3)>>>>
    /\ yielded = <<Post(1), Post(2)>>
    /\ cached_posts = <<Post(3)>>
    /\ Len(cached_comments) = 1
    /\ comment_item.tag = "Ok"
    /\ comment_item.val[1].id # cached_comments[1].id

-----------------------------------------------------------------------------
\* Properties of the token behind its locks, checked under LockSpec.

\* The values a token read may return: no token, or a token all of whose
\* fields come from one issued record.
WholeTokens == {None} \cup {Some(t) : t \in Tokens}

\* C13: a read of the token that runs while another thread logs in or calls
\* set_authenticator returns, when its clone is complete, the token stored
\* before that write or the token the write installs, whole (or no token),
\* never fields of both; and no clone is in progress while the stored value
\* is half written.
TokenReadIsAtomic ==
    /\ [](rd = "copying" => wr = "idle" /\ token(authenticator) \in WholeTokens)
    /\ [][(rd = "copying" /\ rd' = "done")
            => /\ seen' \in WholeTokens
               /\ seen' \in {old_tok, token(incoming)}]_vars

TokenReadIsAtomicWitness ==
    /\ rd = "done"
    /\ wr = "login"
    /\ seen = old_tok
    /\ seen # None
    /\ token(incoming) # old_tok
    /\ token(authenticator) \notin WholeTokens

-----------------------------------------------------------------------------
\* Properties of the mapping of raw records, checked under RecordSpec.

\* The full name of a thing: its kind and its id, joined by an underscore.
FullName(kind, id) == kind \o "_" \o id

\* C14: the Post made of a raw post record has the kind and the id of the
\* record, character for character, whatever they are; so the full name
\* formed of the Post's kind and id is the one formed of the server's.
PostKeepsKindAndId ==
    (mapped # None /\ IsPostRecord(record[1]))
        => /\ mapped[1].kind = record[1].kind
           /\ mapped[1].id = record[1].data.id
           /\ FullName(mapped[1].kind, mapped[1].id)
                 = FullName(record[1].kind, record[1].data.id)

PostKeepsKindAndIdWitness ==
    /\ mapped # None
    /\ IsPostRecord(record[1])
    /\ record[1].kind = " t3"
    /\ record[1].data.id = "ABC"
    /\ FullName(mapped[1].kind, mapped[1].id) = " t3_ABC"

\* C25: every object made of a raw record, a Comment as well as a Post, has
\* the kind of the record, unchanged, so that the full name kind + id can be
\* formed of the object alone.
EveryObjectKeepsKind ==
    mapped # None
        => /\ "kind" \in DOMAIN mapped[1]
           /\ mapped[1].kind = record[1].kind
           /\ FullName(mapped[1].kind, mapped[1].id)
                 = FullName(record[1].kind, record[1].data.id)

\* A Comment was made of a raw comment record, and it has no kind.
EveryObjectKeepsKindWitness ==
    /\ mapped # None
    /\ ~IsPostRecord(record[1])
    /\ record[1].kind = "t1"
    /\ mapped[1] = [id |-> "abc", body |-> "text"]

-----------------------------------------------------------------------------
\* Properties of CommentFeed::next, checked under Spec.

\* C24: when the body get returned is a pair of listings, next yields the
\* first record of the second listing, mapped, and buffers the rest of the
\* second listing; nothing of the first listing is mapped, yielded or
\* buffered, whatever it holds.
OnlySecondEnvelope ==
    [][(CommentNextReturn /\ CommentsParsed)
          => LET children == getRes.val[1].children
                 rest == [i \in 1..(Len(children) - 1) |->
                             CommentFrom(children[Len(children) + 1 - i])]
             IN  /\ cached_comments' = IF children = <<>> THEN <<>> ELSE rest
                 /\ comment_item' = IF children = <<>> THEN NoneItem
                                    ELSE Ok(CommentFrom(children[1]))]_vars

\* get returned two comments behind a first listing that holds the post.
OnlySecondEnvelopeWitness ==
    /\ CommentsParsed
    /\ getRes.val[1].first.children # <<>>
    /\ Len(getRes.val[1].children) = 2

-----------------------------------------------------------------------------
\* Properties of a CommentFeed in front of a server that returns the same
\* listing on every request, checked under ThreadSpec.

\* C21: the comments pulled from a CommentFeed are, in the server's order,
\* comments of its listing, each once: the k-th comment pulled is the k-th of
\* the listing, and no more comments are pulled than the listing holds (a
\* pull after the last comment returns None or an error).
CommentFeedIsFinite ==
    /\ Len(yielded_comments) <= Len(thread)
    /\ \A k \in 1..Len(yielded_comments) :
          k <= Len(thread) => yielded_comments[k] = CommentFrom(thread[k])

\* The only comment of a listing was pulled twice.
CommentFeedIsFiniteWitness ==
    /\ Len(thread) = 1
    /\ yielded_comments = <<CommentFrom(thread[1]), CommentFrom(thread[1])>>

-----------------------------------------------------------------------------
\* Properties of feeds that share a client, checked under FeedsSpec.

\* C26: making a feed sends no request and gives a feed with an empty
\* buffer, and a PostFeed with an empty cursor, whatever feeds were made
\* before and whatever they hold, which stays as it is; the URL of a
\* CommentFeed is made of the subreddit and the id of its post and of
\* nothing else of it.
ConstructionIsFresh ==
    [][/\ op' \in {"posts_sorted", "comments"}
            => /\ pc' = "ready"
               /\ req' = None
               /\ gets' = 0
               /\ logins' = 0
               /\ UNCHANGED <<client, authenticator>>
       /\ PostsSorted
            => /\ after' = ""
               /\ cached_posts' = <<>>
               /\ UNCHANGED <<comment_url, cached_comments>>
       /\ \A p \in Subjects :
            Comments(p)
                => /\ cached_comments' = <<>>
                   /\ comment_url' = "https://oauth.reddit.com/r/" \o p.subreddit
                                         \o "/comments/" \o p.id
                   /\ UNCHANGED <<after, limit, cached_posts>>
                   /\ \A q \in Subjects :
                         (q.subreddit = p.subreddit /\ q.id = p.id)
                             <=> comments_url(q) = comment_url']_vars

\* A CommentFeed was made of a post of another subreddit while the feed of
\* posts held a cursor and records.
ConstructionIsFreshWitness ==
    /\ op = "comments"
    /\ comment_url = "https://oauth.reddit.com/r/news/comments/abc"
    /\ cached_comments = <<>>
    /\ comment_item = Pending
    /\ cached_posts # <<>>
    /\ after # ""

-----------------------------------------------------------------------------
\* Properties of calls that run at the same time on one client, checked
\* under RaceSpec.

\* C28: in every get, also while set_authenticator or another get runs on
\* the same client, the token is present once login has returned success,
\* when get is about to read it for the re-issued GET, and no get returns
\* the error "token was not set after logging in".
TokenPresentAfterLogin ==
    \A t \in Callers :
        /\ calls[t].pc = "pre_second" => token(authenticator) # None
        /\ calls[t].res # Err(AuthenticationError("token_not_set"))

\* A get returned that error under an authenticator without a token.
TokenPresentAfterLoginWitness ==
    \E t \in Callers :
        /\ calls[t].op = "get"
        /\ calls[t].pc = "done"
        /\ calls[t].res = Err(AuthenticationError("token_not_set"))
        /\ token(authenticator) = None

\* C29: while the account request of a me() is in flight, first or
\* re-issued, the authenticator of the client is a script or a user one,
\* also when set_authenticator runs between the is_logged_in check of me()
\* and its request.
MeRequestsUnderUser ==
    \A t \in Callers :
        (calls[t].op = "me" /\ calls[t].pc \in {"first", "second"})
            => authenticator.kind \in {"script", "user"}

\* The re-issued account request of a me() is in flight with the token of
\* an application authenticator.
MeRequestsUnderUserWitness ==
    \E t \in Callers :
        /\ calls[t].op = "me"
        /\ calls[t].pc = "second"
        /\ authenticator.kind = "application"
        /\ token(authenticator) # None

\* While a call is in progress, a call can take a step.
DeadlockFree ==
    (\E t \in Callers : calls[t].pc # "done") => ENABLED RaceStep

\* C30: calls of get, me, refresh_token and set_authenticator that run at
\* the same time on one client never deadlock, and a set_authenticator that
\* waits is kept waiting by calls that were in flight when it began only: no
\* call that began while it was waiting holds the authenticator for reading
\* before it is done.
WriterWaitsForCallsInFlight ==
    /\ DeadlockFree
    /\ \A u \in Readers : calls[u].since \cap Writers = {}

\* A get that began while a set_authenticator was waiting sends its GET
\* under a read guard, and the set_authenticator still waits.
WriterWaitsForCallsInFlightWitness ==
    \E t, u \in Callers :
        /\ calls[t].pc = "set_wait"
        /\ calls[u].op = "get"
        /\ calls[u].pc = "first"
        /\ t \in calls[u].since

=============================================================================
